---------------------------- MODULE Spec2Model ----------------------------
(***************************************************************************)
(* puslib: CCSDS space packets, the PUS TC/TM specialisations, the         *)
(* CRC-16/CCITT packet error control, the CUC time code and the request    *)
(* verification service (PUS service 1) with the policy's packet           *)
(* factories.                                                              *)
(*                                                                         *)
(* Byte strings are sequences of 0..255.  A Python value that may be None  *)
(* is a sequence of length at most one: None is <<>>, the value v is <<v>>.*)
(* Python integers are unbounded, so the bit operations below are exact    *)
(* on naturals and masks appear only where the code masks.                 *)
(*                                                                         *)
(* Specifications:                                                         *)
(*   Spec       one caller driving the verification service and the        *)
(*              policy's factories, one whole call per step                *)
(*   SpecConc   two threads inside accept/start/progress/complete at once, *)
(*              one shared-state access per step                           *)
(*   SpecCodec  packets built, serialized and deserialized, and the ack     *)
(*              flags of a TC packet queried                               *)
(*   SpecCrc    calculate applied to a buffer                              *)
(*   SpecCuc    a CucTime instance serialized and its bytes deserialized   *)
(*   SpecTime   a CucTime instance constructed and changed in place        *)
(*   SpecPolicy policy instances made, configured and registered, and      *)
(*              accept called on the service                               *)
(***************************************************************************)
EXTENDS Integers, Sequences, FiniteSets, TLC

(***************************************************************************)
(* Bounds of the model                                                     *)
(***************************************************************************)
\* calls one run of Spec makes
MaxCalls == 2
\* longest application / source data field of a packet built in SpecCodec
MaxData == 1
\* longest buffer of SpecCrc drawn from CrcBytes
MaxCrcLen == 3

(***************************************************************************)
(* Optional values and bytes                                               *)
(***************************************************************************)
None == <<>>

Some(v) == <<v>>

IsNone(o) == o = <<>>

Get(o) == o[1]

RECURSIVE Xor(_, _)
\* Python's ^ on non-negative integers
Xor(a, b) ==
    IF a = 0 THEN b
    ELSE IF b = 0 THEN a
    ELSE (((a % 2) + (b % 2)) % 2) + 2 * Xor(a \div 2, b \div 2)

RECURSIVE BitAnd(_, _)
\* Python's & on non-negative integers
BitAnd(a, b) ==
    IF a = 0 \/ b = 0 THEN 0
    ELSE ((a % 2) * (b % 2)) + 2 * BitAnd(a \div 2, b \div 2)

RECURSIVE Fits(_, _)
\* v is representable as an unsigned integer of n bytes
Fits(v, n) == IF n = 0 THEN v = 0 ELSE Fits(v \div 256, n - 1)

RECURSIVE ToBytesBE(_, _)
\* int.to_bytes(n, byteorder='big') / bitstring 'uintbe', for a value that fits
ToBytesBE(v, n) ==
    IF n = 0 THEN <<>> ELSE Append(ToBytesBE(v \div 256, n - 1), v % 256)

RECURSIVE FromBytesBE(_)
\* int.from_bytes(b, byteorder='big')
FromBytesBE(b) ==
    IF Len(b) = 0 THEN 0
    ELSE 256 * FromBytesBE(SubSeq(b, 1, Len(b) - 1)) + b[Len(b)]

\* Python's buffer[lo:hi] with 0-based bounds, clipped to the buffer
Slice(b, lo, hi) ==
    SubSeq(b, lo + 1, IF hi > Len(b) THEN Len(b) ELSE hi)

(***************************************************************************)
(* crc_ccitt.py                                                            *)
(***************************************************************************)
_POLYNOMIAL == 4129

_PRESET == 65535

RECURSIVE _initial_loop(_, _, _)
\* the body of _initial's "for _ in range(8)", n iterations left; crc and c
\* are not masked inside the loop
_initial_loop(crc, c, n) ==
    IF n = 0 THEN crc
    ELSE LET tmp == crc * 2
             hit == BitAnd(Xor(crc, c), 32768) # 0
         IN  _initial_loop(IF hit THEN Xor(tmp, _POLYNOMIAL) ELSE tmp, c * 2, n - 1)

_initial(c) == _initial_loop(0, c * 256, 8)

_tab == [i \in 0..255 |-> _initial(i)]

\* _update_crc indexing the table with the low octet of the CRC
_update_crc_lowbyte(crc, byte) ==
    LET b == byte % 256
        tmp == Xor(crc, b)
    IN  Xor(crc * 256, _tab[tmp % 256]) % 65536

\* _update_crc: one table step, the CRC kept to 16 bits
_update_crc(crc, byte) ==
    LET b == byte % 256
        tmp == Xor(crc \div 256, b)
    IN  Xor(crc * 256, _tab[tmp % 256]) % 65536

RECURSIVE _calculate_from(_, _)
_calculate_from(crc, buffer) ==
    IF Len(buffer) = 0 THEN crc
    ELSE _calculate_from(_update_crc(crc, Head(buffer)), Tail(buffer))

\* calculate with the CRC preset to zero
calculate_preset0(buffer) == _calculate_from(0, buffer)

\* calculate: the CRC of the buffer, starting from the preset
calculate(buffer) == _calculate_from(_PRESET, buffer)

(***************************************************************************)
(* time.py                                                                 *)
(***************************************************************************)
\* TimeCodeIdentification
TAI == 1

AGENCY_DEFINED == 2

Min(a, b) == IF a < b THEN a ELSE b

Max(a, b) == IF a > b THEN a ELSE b

\* _TimeFormat._pack_preamble: the P-field of one or two octets
_pack_preamble(basic_unit_length, frac_unit_length, time_code_id) ==
    LET p_field_extension ==
            IF basic_unit_length > 4 \/ frac_unit_length > 3 THEN 1 ELSE 0
        basic_time_unit_num_octets == Min(3, basic_unit_length - 1)
        basic_frac_unit_num_octets == Min(3, frac_unit_length)
        basic_time_unit_additional_octet == Max(0, basic_unit_length - 4)
        basic_frac_unit_additional_octet == Max(0, frac_unit_length - 3)
        octet1 == p_field_extension * 128 + time_code_id * 16
                    + basic_time_unit_num_octets * 4 + basic_frac_unit_num_octets
        octet2 == basic_time_unit_additional_octet * 32
                    + basic_frac_unit_additional_octet * 4
    IN  IF p_field_extension = 1 THEN <<octet1, octet2>> ELSE <<octet1>>

\* _TimeFormat.__init__: None when InvalidTimeFormat is raised.  epoch and
\* preamble are optional; an empty preamble counts as absent ("if preamble").
_TimeFormat(basic_unit_length, frac_unit_length, epoch, preamble) ==
    IF ~(1 <= basic_unit_length /\ basic_unit_length <= 7) THEN None
    ELSE IF ~(0 <= frac_unit_length /\ frac_unit_length <= 10) THEN None
    ELSE LET tci == IF IsNone(epoch) THEN TAI ELSE AGENCY_DEFINED
         IN  Some([basic_unit_length |-> basic_unit_length,
                   frac_unit_length |-> frac_unit_length,
                   epoch |-> epoch,
                   time_code_id |-> tci,
                   preamble |-> IF ~IsNone(preamble) /\ Len(Get(preamble)) > 0
                                THEN Get(preamble)
                                ELSE _pack_preamble(basic_unit_length, frac_unit_length, tci)])

\* CucTime.__init__: no range check of seconds or fraction; the fraction is
\* None when the format has no fraction field
CucTime(seconds, fraction, basic_unit_length, frac_unit_length, has_preamble, epoch, preamble) ==
    LET f == _TimeFormat(basic_unit_length, frac_unit_length, epoch, preamble)
    IN  IF IsNone(f) THEN None
        ELSE Some([format |-> Get(f),
                   has_preamble |-> has_preamble,
                   seconds |-> seconds,
                   fraction |-> IF Get(f).frac_unit_length # 0 THEN Some(fraction) ELSE None])

\* CucTime.__len__ leaving the preamble out
CucLenNoPreamble(t) == t.format.basic_unit_length + t.format.frac_unit_length

\* CucTime.__len__ counting the basic time unit only
CucLenBasicOnly(t) ==
    (IF t.has_preamble THEN Len(t.format.preamble) ELSE 0) + t.format.basic_unit_length

\* CucTime.__len__
CucLen(t) ==
    (IF t.has_preamble THEN Len(t.format.preamble) ELSE 0)
        + t.format.basic_unit_length + t.format.frac_unit_length

\* CucTime.__bytes__: None when bitstring refuses a value that does not fit
CucBytes(t) ==
    LET b == t.format.basic_unit_length
        f == t.format.frac_unit_length
    IN  IF ~Fits(t.seconds, b) THEN None
        ELSE IF f # 0 /\ (IsNone(t.fraction) \/ ~Fits(Get(t.fraction), f)) THEN None
        ELSE Some((IF t.has_preamble THEN t.format.preamble ELSE <<>>)
                    \o ToBytesBE(t.seconds, b)
                    \o (IF f # 0 THEN ToBytesBE(Get(t.fraction), f) ELSE <<>>))

\* CucTime.from_bytes reading the time units from the start of the buffer
CucFromBytesNoPreamble(t, buffer) ==
    LET fraction_offset == t.format.basic_unit_length
    IN  IF Len(buffer) < t.format.basic_unit_length + t.format.frac_unit_length
        THEN None
        ELSE Some([t EXCEPT
                !.seconds = FromBytesBE(Slice(buffer, 0, fraction_offset)),
                !.fraction = Some(FromBytesBE(Slice(buffer, fraction_offset,
                                    fraction_offset + t.format.frac_unit_length)))])

\* CucTime.from_bytes on the instance t: None when ValueError is raised,
\* else t with seconds and fraction read from the buffer at the offsets the
\* instance's own format gives (the preamble bytes are skipped, not parsed)
CucFromBytes(t, buffer) ==
    LET preamble_size == IF t.has_preamble THEN Len(t.format.preamble) ELSE 0
        fraction_offset == preamble_size + t.format.basic_unit_length
    IN  IF Len(buffer) < preamble_size + t.format.basic_unit_length + t.format.frac_unit_length
        THEN None
        ELSE Some([t EXCEPT
                !.seconds = FromBytesBE(Slice(buffer, preamble_size, fraction_offset)),
                !.fraction = Some(FromBytesBE(Slice(buffer, fraction_offset,
                                    fraction_offset + t.format.frac_unit_length)))])

(***************************************************************************)
(* packet.py: the space packet frame and the PUS TC / TM packets.  The     *)
(* byte layout is that of the wire format table and of the vectors of      *)
(* tests/test_packet.py: the optional source, message type counter and     *)
(* destination fields are one octet wide there, and the packet data        *)
(* length field counts the PEC octets.                                     *)
(***************************************************************************)
\* PacketType
TM == 0

TC == 1

\* AckFlag
ACK_NONE == 0

ACCEPTANCE == 1

START_OF_EXECUTION == 2

PROGRESS == 4

COMPLETION == 8

\* size of the CCSDS primary header
HeaderSize == 6

\* size of the PEC trailer
PecSize == 2

\* sequence flags of an unsegmented packet
Unsegmented == 3

\* an optional one-octet field: nothing when absent
OptByte(o) == IF IsNone(o) THEN <<>> ELSE <<Get(o)>>

\* CcsdsSpacePacket.create: a packet is a record; sec is None for a generic
\* packet and the secondary header's fields for a TC or TM packet
CcsdsCreate(packet_type, apid, seq_count_or_name, data, has_pec, secondary_header_flag) ==
    [packet_version_number |-> 0,
     packet_type |-> packet_type,
     secondary_header_flag |-> secondary_header_flag,
     apid |-> apid,
     seq_flags |-> Unsegmented,
     seq_count_or_name |-> seq_count_or_name,
     sec |-> None,
     data |-> data,
     has_pec |-> has_pec]

\* PusTcPacket.create
PusTcCreate(apid, name, ack_flags, service_type, service_subtype, source, data, pus_version, has_pec) ==
    [CcsdsCreate(TC, apid, name, data, has_pec, 1) EXCEPT
        !.sec = Some([pus_version |-> pus_version,
                      ack_flags |-> ack_flags,
                      service_type |-> service_type,
                      service_subtype |-> service_subtype,
                      source |-> source])]

\* PusTmPacket.create; a None time reference status is 0
PusTmCreate(apid, seq_count, service_type, service_subtype, time, msg_type_counter, destination, data, pus_version, status, has_pec) ==
    [CcsdsCreate(TM, apid, seq_count, data, has_pec, 1) EXCEPT
        !.sec = Some([pus_version |-> pus_version,
                      spacecraft_time_ref_status |-> status,
                      service_type |-> service_type,
                      service_subtype |-> service_subtype,
                      msg_type_counter |-> msg_type_counter,
                      destination |-> destination,
                      time |-> time])]

\* the serialized secondary header with the two nibbles of its first octet
\* exchanged
SecondaryHeaderBytesSwapped(p) ==
    IF IsNone(p.sec) THEN Some(<<>>)
    ELSE LET h == Get(p.sec)
         IN  IF p.packet_type = TC
             THEN Some(<<h.ack_flags * 16 + h.pus_version, h.service_type, h.service_subtype>>
                        \o OptByte(h.source))
             ELSE LET t == CucBytes(h.time)
                  IN  IF IsNone(t) THEN None
                      ELSE Some(<<h.spacecraft_time_ref_status * 16 + h.pus_version,
                                  h.service_type, h.service_subtype>>
                                 \o OptByte(h.msg_type_counter)
                                 \o OptByte(h.destination)
                                 \o Get(t))

\* the serialized secondary header: None when the time field cannot be packed
SecondaryHeaderBytes(p) ==
    IF IsNone(p.sec) THEN Some(<<>>)
    ELSE LET h == Get(p.sec)
         IN  IF p.packet_type = TC
             THEN Some(<<h.pus_version * 16 + h.ack_flags, h.service_type, h.service_subtype>>
                        \o OptByte(h.source))
             ELSE LET t == CucBytes(h.time)
                  IN  IF IsNone(t) THEN None
                      ELSE Some(<<h.pus_version * 16 + h.spacecraft_time_ref_status,
                                  h.service_type, h.service_subtype>>
                                 \o OptByte(h.msg_type_counter)
                                 \o OptByte(h.destination)
                                 \o Get(t))

\* packet.payload: secondary header and data field, without the PEC
Payload(p) ==
    LET h == SecondaryHeaderBytes(p)
    IN  IF IsNone(h) THEN None ELSE Some(Get(h) \o p.data)

\* the octets the secondary header is declared to take: the time field
\* counts with len(time)
SecondaryHeaderLen(p) ==
    IF IsNone(p.sec) THEN 0
    ELSE LET h == Get(p.sec)
         IN  IF p.packet_type = TC
             THEN 3 + Len(OptByte(h.source))
             ELSE 3 + Len(OptByte(h.msg_type_counter)) + Len(OptByte(h.destination))
                    + CucLen(h.time)

\* the value of the header's packet data length field: the octets after the
\* primary header, PEC included, less one
DataLength(p) ==
    SecondaryHeaderLen(p) + Len(p.data) + (IF p.has_pec THEN PecSize ELSE 0) - 1

\* len(packet)
PacketLen(p) == HeaderSize + DataLength(p) + 1

\* the six octets of the primary header
HeaderBytes(p) ==
    <<p.packet_version_number * 32 + p.packet_type * 16
        + p.secondary_header_flag * 8 + (p.apid \div 256),
      p.apid % 256,
      p.seq_flags * 64 + (p.seq_count_or_name \div 256),
      p.seq_count_or_name % 256>>
    \o ToBytesBE(DataLength(p), 2)

\* the PEC trailer of the octets before it, most significant octet first
PecBytes(body) == <<calculate(body) \div 256, calculate(body) % 256>>

\* packet.serialize(): None when a field cannot be packed
Serialize(p) ==
    IF IsNone(Payload(p)) \/ DataLength(p) < 0 \/ DataLength(p) > 65535 THEN None
    ELSE LET body == HeaderBytes(p) \o Get(Payload(p))
         IN  Some(body \o (IF p.has_pec THEN PecBytes(body) ELSE <<>>))

\* PusTcPacket.request_id(): packet id and sequence control, the first four
\* octets of the primary header
RequestId(p) == SubSeq(HeaderBytes(p), 1, 4)

\* PusTcPacket.ack(flag) answering for the whole mask
AckAnyFlag(p, flag) == Get(p.sec).ack_flags # 0

\* PusTcPacket.ack(flag)
Ack(p, flag) == BitAnd(Get(p.sec).ack_flags, flag) # 0

\* the primary header's fields and the payload of a buffer: None when the
\* buffer is shorter than the header or than the length the header declares
Frame(buffer, has_pec) ==
    IF Len(buffer) < HeaderSize THEN None
    ELSE LET data_length == buffer[5] * 256 + buffer[6]
             packet_length == HeaderSize + data_length + 1
             payload_end == packet_length - (IF has_pec THEN PecSize ELSE 0)
         IN  IF Len(buffer) < packet_length \/ payload_end < HeaderSize THEN None
             ELSE Some([packet_version_number |-> buffer[1] \div 32,
                        packet_type |-> (buffer[1] \div 16) % 2,
                        secondary_header_flag |-> (buffer[1] \div 8) % 2,
                        apid |-> (buffer[1] % 8) * 256 + buffer[2],
                        seq_flags |-> buffer[3] \div 64,
                        seq_count_or_name |-> (buffer[3] % 64) * 256 + buffer[4],
                        sec |-> None,
                        data |-> Slice(buffer, HeaderSize, payload_end),
                        has_pec |-> has_pec])

\* CcsdsSpacePacket.deserialize
CcsdsDeserialize(buffer, has_pec) == Frame(buffer, has_pec)

\* PusTcPacket.deserialize
PusTcDeserialize(buffer, has_source_field, has_pec) ==
    LET f == Frame(buffer, has_pec)
        n == 3 + (IF has_source_field THEN 1 ELSE 0)
    IN  IF IsNone(f) THEN None
        ELSE LET pl == Get(f).data
             IN  IF Len(pl) < n THEN None
                 ELSE Some([Get(f) EXCEPT
                        !.sec = Some([pus_version |-> pl[1] \div 16,
                                      ack_flags |-> pl[1] % 16,
                                      service_type |-> pl[2],
                                      service_subtype |-> pl[3],
                                      source |-> IF has_source_field THEN Some(pl[4]) ELSE None]),
                        !.data = Slice(pl, n, Len(pl))])

\* PusTmPacket.deserialize: cuc_time is the instance the time field is read
\* into with from_bytes
PusTmDeserialize(buffer, has_type_counter_field, has_destination_field, cuc_time, has_pec) ==
    LET f == Frame(buffer, has_pec)
        c == IF has_type_counter_field THEN 1 ELSE 0
        d == IF has_destination_field THEN 1 ELSE 0
        n == 3 + c + d
    IN  IF IsNone(f) THEN None
        ELSE LET pl == Get(f).data
                 t == CucFromBytes(cuc_time, Slice(pl, n, Len(pl)))
             IN  IF Len(pl) < n \/ IsNone(t) THEN None
                 ELSE Some([Get(f) EXCEPT
                        !.sec = Some([pus_version |-> pl[1] \div 16,
                                      spacecraft_time_ref_status |-> pl[1] % 16,
                                      service_type |-> pl[2],
                                      service_subtype |-> pl[3],
                                      msg_type_counter |->
                                          IF has_type_counter_field THEN Some(pl[4]) ELSE None,
                                      destination |->
                                          IF has_destination_field THEN Some(pl[4 + c]) ELSE None,
                                      time |-> Get(t)]),
                        !.data = Slice(pl, n + CucLen(cuc_time), Len(pl))])

(***************************************************************************)
(* State                                                                   *)
(***************************************************************************)
VARIABLES
    seq_count,          \* the service identifier's sequence counter
    counter,            \* subcounter's dict: (service type, subtype) -> next value
    failure_code_type,  \* octets of RequestVerification.failure_code_type
    sink,               \* the reports the output stream has accepted, in order
    last,               \* the call made last: its inputs and what it did
    tm_created,         \* TM packets the TM factory has made so far, per pair
    calls,              \* calls made so far
    pc,                 \* SpecConc: where each thread is in its call
    frame,              \* SpecConc: each thread's arguments and locals
    overlapped,         \* SpecConc: both threads were inside a call at once
    pkt,                \* SpecCodec: the packet built
    wire,               \* SpecCodec: its serialization
    decoded,            \* SpecCodec: what deserializing the wire gave
    acked,              \* SpecCodec: the last ack() query and its answer
    crc_in,             \* SpecCrc: the buffer handed to calculate
    crc_out,            \* SpecCrc: what calculate returned
    cuc,                \* SpecCuc, SpecTime: the CucTime instance
    cuc_bytes,          \* SpecCuc: bytes(cuc)
    cuc_dec,            \* SpecCuc: the CucTime.deserialize call made and its result
    cuc_op,             \* SpecTime: the operation made last on cuc
    cuc_ops,            \* SpecTime: operations made so far
    request_verification,   \* SpecPolicy: each policy instance's request_verification
    _pus_policy,        \* SpecPolicy: the policy set_policy registered last
    configured          \* SpecPolicy: the width last set through each policy instance

vars == <<seq_count, counter, failure_code_type, sink, last, tm_created, calls,
          pc, frame, overlapped, pkt, wire, decoded, acked,
          crc_in, crc_out, cuc, cuc_bytes, cuc_dec, cuc_op, cuc_ops,
          request_verification, _pus_policy, configured>>

serviceVars == <<seq_count, counter, failure_code_type, sink, last, tm_created, calls>>

concVars == <<pc, frame, overlapped>>

codecVars == <<pkt, wire, decoded, acked>>

crcVars == <<crc_in, crc_out>>

timeVars == <<cuc, cuc_bytes, cuc_dec, cuc_op, cuc_ops>>

policyVars == <<request_verification, _pus_policy, configured>>

\* what the service and the codec leave alone
pureVars == <<crcVars, timeVars, policyVars>>

(***************************************************************************)
(* services/pus_001_request_verification.py, pus_policy.py                 *)
(***************************************************************************)
\* _SubService
SUCCESSFUL_ACCEPTANCE_VERIFICATION == 1

FAILED_ACCEPTANCE_VERIFICATION == 2

SUCCESSFUL_START_OF_EXECUTION_VERIFICATION == 3

FAILED_START_OF_EXECUTION_VERIFICATION == 4

SUCCESSFUL_PROGRESS_OF_EXECUTION_VERIFICATION == 5

FAILED_PROGRESS_OF_EXECUTION_VERIFICATION == 6

SUCCESSFUL_COMPLETION_OF_EXECUTION_VERIFICATION == 7

FAILED_COMPLETION_OF_EXECUTION_VERIFICATION == 8

\* PusServiceType.REQUEST_VERIFICATION
REQUEST_VERIFICATION == 1

\* CommonErrorCode.ILLEGAL_APP_DATA
ILLEGAL_APP_DATA == 5

\* the sequence count is a 14-bit field
SeqCountModulus == 16384

\* subcounter's modulus
CounterModulus == 256

\* Telemetry.destination_id_type, handed to PusTmPacket.create as destination
DestinationId == 2

\* Common.pus_version
PolicyPusVersion == 1

\* Time.basic_unit_length, Time.frac_unit_length of the policy
PolicyBasicUnitLength == 4

PolicyFracUnitLength == 3

\* Time.epoch of the policy, as the year
PolicyEpoch == 1950

\* Python truthiness of an optional integer and of optional bytes
TruthyInt(o) == ~IsNone(o) /\ Get(o) # 0

TruthyBytes(o) == ~IsNone(o) /\ Len(Get(o)) > 0

\* the (service type, subtype) pairs the factories are called with
Keys == ({REQUEST_VERIFICATION} \X (1..8)) \cup {<<17, 1>>, <<17, 2>>}

\* the APID of the service's identifier
IdentApids == {17}

\* failure codes a caller passes: none, ILLEGAL_APID (0), INCOMPLETE (1)
FailureCodes == {None, Some(0), Some(1)}

\* failure data a caller passes
FailureData == {None, Some(<<171>>)}

\* the telecommands handed to the service: one command asking for no report
\* or for the report of a single stage, and a second command asking for all
TcPackets ==
    {PusTcCreate(16, 80, a, 8, 1, None, <<>>, PolicyPusVersion, TRUE) :
        a \in {ACK_NONE, ACCEPTANCE, START_OF_EXECUTION, PROGRESS, COMPLETION}}
    \cup {PusTcCreate(16, 81, ACCEPTANCE + START_OF_EXECUTION + PROGRESS + COMPLETION,
                      8, 1, None, <<>>, PolicyPusVersion, TRUE)}

\* what a caller passes to a stage operation: a success call is made without
\* failure code and data
StageInputs ==
    {i \in [packet : TcPackets, success : BOOLEAN,
            failure_code : FailureCodes, failure_data : FailureData] :
        i.success => (IsNone(i.failure_code) /\ IsNone(i.failure_data))}

\* readings of the clock, as (seconds, fraction) since the policy's epoch
Clock == {<<100, 7>>}

\* PusIdent.seq_count() handing out the count without advancing it
NextSeqCountStale(c) == [value |-> c, next |-> c]

\* PusIdent.seq_count() counting on past the 14 bits of the field
NextSeqCountNoWrap(c) == [value |-> c, next |-> c + 1]

\* PusIdent.seq_count(): the value handed out and the counter after it
NextSeqCount(c) == [value |-> c, next |-> (c + 1) % SeqCountModulus]

\* subcounter(**kwargs): key is None when kwargs lacks service_type or
\* service_subtype; the value returned and the dict after the call
subcounter(ctr, key) ==
    IF IsNone(key) THEN [value |-> None, counter |-> ctr]
    ELSE LET count == ctr[Get(key)]
         IN  [value |-> Some(count),
              counter |-> [ctr EXCEPT ![Get(key)] = (count + 1) % CounterModulus]]

\* PusPolicy.CucTime(): CucTime.create with the policy's format; seconds and
\* fraction come from the clock
PolicyCucTime(now) ==
    Get(CucTime(now[1], now[2], PolicyBasicUnitLength, PolicyFracUnitLength,
                FALSE, Some(PolicyEpoch), None))

\* the stage flag each operation consults
StageFlag(op) ==
    CASE op = "accept" -> ACCEPTANCE
      [] op = "start" -> START_OF_EXECUTION
      [] op = "progress" -> PROGRESS
      [] op = "complete" -> COMPLETION

\* the subservices with success and failure exchanged
SubServiceSwapped(op, success) ==
    CASE op = "accept" ->
            IF success THEN FAILED_ACCEPTANCE_VERIFICATION
            ELSE SUCCESSFUL_ACCEPTANCE_VERIFICATION
      [] op = "start" ->
            IF success THEN FAILED_START_OF_EXECUTION_VERIFICATION
            ELSE SUCCESSFUL_START_OF_EXECUTION_VERIFICATION
      [] op = "progress" ->
            IF success THEN FAILED_PROGRESS_OF_EXECUTION_VERIFICATION
            ELSE SUCCESSFUL_PROGRESS_OF_EXECUTION_VERIFICATION
      [] op = "complete" ->
            IF success THEN FAILED_COMPLETION_OF_EXECUTION_VERIFICATION
            ELSE SUCCESSFUL_COMPLETION_OF_EXECUTION_VERIFICATION

\* the subservice each operation selects
SubService(op, success) ==
    CASE op = "accept" ->
            IF success THEN SUCCESSFUL_ACCEPTANCE_VERIFICATION
            ELSE FAILED_ACCEPTANCE_VERIFICATION
      [] op = "start" ->
            IF success THEN SUCCESSFUL_START_OF_EXECUTION_VERIFICATION
            ELSE FAILED_START_OF_EXECUTION_VERIFICATION
      [] op = "progress" ->
            IF success THEN SUCCESSFUL_PROGRESS_OF_EXECUTION_VERIFICATION
            ELSE FAILED_PROGRESS_OF_EXECUTION_VERIFICATION
      [] op = "complete" ->
            IF success THEN SUCCESSFUL_COMPLETION_OF_EXECUTION_VERIFICATION
            ELSE FAILED_COMPLETION_OF_EXECUTION_VERIFICATION

\* _generate_report, lines 123-127, with no code appended when none is given
ReportPayloadNoDefault(packet, success, failure_code, failure_data, width) ==
    RequestId(packet) \o
    (IF success THEN <<>>
     ELSE (IF ~TruthyInt(failure_code) THEN <<>>
           ELSE ToBytesBE(Get(failure_code), width))
            \o (IF TruthyBytes(failure_data) THEN Get(failure_data) ELSE <<>>))

\* _generate_report, lines 123-127: the report's source data
ReportPayload(packet, success, failure_code, failure_data, width) ==
    RequestId(packet) \o
    (IF success THEN <<>>
     ELSE LET code == IF ~TruthyInt(failure_code) THEN ILLEGAL_APP_DATA
                      ELSE Get(failure_code)
          IN  ToBytesBE(code, width)
                \o (IF TruthyBytes(failure_data) THEN Get(failure_data) ELSE <<>>))

\* to_bytes raises OverflowError for a code wider than the field
PayloadRaises(success, failure_code, width) ==
    ~success /\ TruthyInt(failure_code) /\ ~Fits(Get(failure_code), width)

\* PusPolicy.PusTmPacket as _generate_report calls it, lines 129-136
ReportPacket(apid, seq, subservice, time, count, payload) ==
    PusTmCreate(apid, seq, REQUEST_VERIFICATION, subservice, time, count,
                Some(DestinationId), payload, PolicyPusVersion, 0, TRUE)

\* the identifier the service was built with
IdentApid == CHOOSE a \in IdentApids : TRUE

\* the threads of SpecConc
Threads == {1, 2}

\* reports of pair (1, 1) made before the run starts: none, or as many as
\* bring both the sequence count and the pair's counter to their last value
Uptimes == {0, SeqCountModulus - 1}

NoCall ==
    [op |-> "none", packet |-> None, success |-> TRUE, failure_code |-> None,
     failure_data |-> None, key |-> None, outcome |-> "returned",
     attempts |-> <<>>, count |-> None, sink_before |-> 0,
     counter_before |-> [k \in Keys |-> 0], seq_before |-> 0]

\* the record of the call being made, taken before its effects
Call(op, packet, success, failure_code, failure_data, key, outcome, attempts, count) ==
    [op |-> op, packet |-> packet, success |-> success, failure_code |-> failure_code,
     failure_data |-> failure_data, key |-> key, outcome |-> outcome,
     attempts |-> attempts, count |-> count, sink_before |-> Len(sink),
     counter_before |-> counter, seq_before |-> seq_count]

\* the class object PusPolicy.RequestVerification, whose attribute
\* failure_code_type is the variable of that name
RequestVerificationClass == "PusPolicy.RequestVerification"

\* the policy instance the package registers when it is imported
DefaultPolicy == "default"

\* the package as imported: the default policy is the only instance, it is
\* the one registered, and nothing has been set through it
IdlePolicy ==
    /\ request_verification = [p \in {DefaultPolicy} |-> RequestVerificationClass]
    /\ _pus_policy = DefaultPolicy
    /\ configured = [p \in {DefaultPolicy} |-> None]

IdleConc ==
    /\ pc = [t \in Threads |-> "idle"]
    /\ frame = [t \in Threads |-> <<>>]
    /\ overlapped = FALSE

IdleCodec ==
    /\ pkt = None
    /\ wire = None
    /\ decoded = None
    /\ acked = None

\* no time operation made yet
NoTimeOp == [op |-> "none", args |-> <<>>, raised |-> FALSE, before |-> None]

IdleCrc ==
    /\ crc_in = <<>>
    /\ crc_out = None

IdleTime ==
    /\ cuc = None
    /\ cuc_bytes = None
    /\ cuc_dec = None
    /\ cuc_op = NoTimeOp
    /\ cuc_ops = 0

InitService ==
    /\ \E n \in Uptimes :
        /\ seq_count = n % SeqCountModulus
        /\ counter = [k \in Keys |->
                        IF k = <<REQUEST_VERIFICATION, SUCCESSFUL_ACCEPTANCE_VERIFICATION>>
                        THEN n % CounterModulus ELSE 0]
        /\ tm_created = [k \in Keys |->
                        IF k = <<REQUEST_VERIFICATION, SUCCESSFUL_ACCEPTANCE_VERIFICATION>>
                        THEN n ELSE 0]
    /\ failure_code_type \in {1, 2}
    /\ sink = <<>>
    /\ last = NoCall
    /\ calls = 0

Init ==
    /\ InitService
    /\ IdleConc
    /\ IdleCodec
    /\ IdlePolicy
    /\ IdleCrc
    /\ IdleTime

\* _generate_report keeping a failure of the write from its caller
_generate_report_swallowing(op, packet, subservice, success, failure_code, failure_data, now, ok) ==
    IF PayloadRaises(success, failure_code, failure_code_type)
    THEN /\ last' = Call(op, Some(packet), success, failure_code, failure_data, None,
                         "raised", <<>>, None)
         /\ UNCHANGED <<seq_count, counter, tm_created, sink>>
    ELSE LET key == <<REQUEST_VERIFICATION, subservice>>
             payload == ReportPayload(packet, success, failure_code, failure_data, failure_code_type)
             s == NextSeqCount(seq_count)
             c == subcounter(counter, Some(key))
             report == ReportPacket(IdentApid, s.value, subservice, PolicyCucTime(now), c.value, payload)
         IN  /\ seq_count' = s.next
             /\ counter' = c.counter
             /\ tm_created' = [tm_created EXCEPT ![key] = @ + 1]
             /\ sink' = IF ok THEN Append(sink, report) ELSE sink
             /\ last' = Call(op, Some(packet), success, failure_code, failure_data, Some(key),
                             "returned", <<[report |-> report, ok |-> ok]>>, c.value)

\* RequestVerification._generate_report: the payload, the time, the next
\* sequence count, the TM factory (which draws the pair's counter), and one
\* write to the output stream, whose failure (ok = FALSE) reaches the caller
_generate_report(op, packet, subservice, success, failure_code, failure_data, now, ok) ==
    IF PayloadRaises(success, failure_code, failure_code_type)
    THEN /\ last' = Call(op, Some(packet), success, failure_code, failure_data, None,
                         "raised", <<>>, None)
         /\ UNCHANGED <<seq_count, counter, tm_created, sink>>
    ELSE LET key == <<REQUEST_VERIFICATION, subservice>>
             payload == ReportPayload(packet, success, failure_code, failure_data, failure_code_type)
             s == NextSeqCount(seq_count)
             c == subcounter(counter, Some(key))
             report == ReportPacket(IdentApid, s.value, subservice, PolicyCucTime(now), c.value, payload)
         IN  /\ seq_count' = s.next
             /\ counter' = c.counter
             /\ tm_created' = [tm_created EXCEPT ![key] = @ + 1]
             /\ sink' = IF ok THEN Append(sink, report) ELSE sink
             /\ last' = Call(op, Some(packet), success, failure_code, failure_data, Some(key),
                             IF ok THEN "returned" ELSE "raised",
                             <<[report |-> report, ok |-> ok]>>, c.value)

\* the early return of a stage whose ack flag the packet does not carry
ReturnUnrequested(op, packet, success, failure_code, failure_data) ==
    /\ last' = Call(op, Some(packet), success, failure_code, failure_data, None,
                    "returned", <<>>, None)
    /\ UNCHANGED <<seq_count, counter, tm_created, sink>>

\* a stage operation without its ack check
StageUngated(op, packet, success, failure_code, failure_data, now, ok) ==
    _generate_report(op, packet, SubService(op, success), success,
                     failure_code, failure_data, now, ok)

\* the body shared by accept, start, progress and complete
Stage(op, packet, success, failure_code, failure_data, now, ok) ==
    IF ~Ack(packet, StageFlag(op))
    THEN ReturnUnrequested(op, packet, success, failure_code, failure_data)
    ELSE _generate_report(op, packet, SubService(op, success), success,
                          failure_code, failure_data, now, ok)

\* what a caller passes to a stage operation; the output stream's answer is
\* taken only when the stage writes
StageCall(op) ==
    /\ calls < MaxCalls
    /\ calls' = calls + 1
    /\ \E i \in StageInputs, now \in Clock :
          \E ok \in (IF Ack(i.packet, StageFlag(op)) THEN BOOLEAN ELSE {TRUE}) :
              Stage(op, i.packet, i.success, i.failure_code, i.failure_data, now, ok)
    /\ UNCHANGED <<failure_code_type, concVars, codecVars, pureVars>>

accept == StageCall("accept")

start == StageCall("start")

progress == StageCall("progress")

complete == StageCall("complete")

\* the kwargs of a factory call, as far as subcounter reads them: the pair,
\* or None when service_type or service_subtype is not among them
FactoryKeys == {None, Some(<<REQUEST_VERIFICATION, SUCCESSFUL_ACCEPTANCE_VERIFICATION>>),
                Some(<<17, 1>>), Some(<<17, 2>>)}

\* PusPolicy.PusTmPacket called directly
PusTmPacket ==
    /\ calls < MaxCalls
    /\ calls' = calls + 1
    /\ \E key \in FactoryKeys :
        LET c == subcounter(counter, key)
        IN  /\ counter' = c.counter
            /\ tm_created' = IF IsNone(key) THEN tm_created
                             ELSE [tm_created EXCEPT ![Get(key)] = @ + 1]
            /\ last' = Call("PusTmPacket", None, TRUE, None, None, key,
                            "returned", <<>>, c.value)
    /\ UNCHANGED <<seq_count, failure_code_type, sink, concVars, codecVars, pureVars>>

\* PusPolicy.PusTcPacket: it draws msg_type_counter from subcounter as well
PusTcPacket ==
    /\ calls < MaxCalls
    /\ calls' = calls + 1
    /\ \E key \in FactoryKeys :
        LET c == subcounter(counter, key)
        IN  /\ counter' = c.counter
            /\ last' = Call("PusTcPacket", None, TRUE, None, None, key,
                            "returned", <<>>, c.value)
    /\ UNCHANGED <<seq_count, failure_code_type, sink, tm_created, concVars, codecVars, pureVars>>

Next ==
    \/ accept
    \/ start
    \/ progress
    \/ complete
    \/ PusTmPacket
    \/ PusTcPacket

Spec == Init /\ [][Next]_vars

(***************************************************************************)
(* Properties of the verification service, checked under Spec              *)
(***************************************************************************)
StageOps == {"accept", "start", "progress", "complete"}

\* the ack flag the specification names for each stage operation
FlagOfStage(op) ==
    CASE op = "accept" -> ACCEPTANCE
      [] op = "start" -> START_OF_EXECUTION
      [] op = "progress" -> PROGRESS
      [] op = "complete" -> COMPLETION

\* the position k of each stage operation
StageNumber(op) ==
    CASE op = "accept" -> 1
      [] op = "start" -> 2
      [] op = "progress" -> 3
      [] op = "complete" -> 4

\* the last call was a stage operation on a packet carrying / not carrying
\* the stage's ack flag
LastRequested ==
    /\ last.op \in StageOps
    /\ BitAnd(Get(Get(last.packet).sec).ack_flags, FlagOfStage(last.op)) # 0

LastUnrequested ==
    /\ last.op \in StageOps
    /\ BitAnd(Get(Get(last.packet).sec).ack_flags, FlagOfStage(last.op)) = 0

\* C1: a stage operation on a packet whose ack flag of that stage is not set
\* returns normally and hands nothing to the output sink, whatever success is;
\* with ack_flags = ACCEPTANCE, accept() hands over a report and start(),
\* progress() and complete() hand over nothing.
C1_AckGating ==
    /\ LastUnrequested =>
        /\ last.outcome = "returned"
        /\ last.attempts = <<>>
        /\ Len(sink) = last.sink_before
    /\ (last.op \in StageOps /\ Get(Get(last.packet).sec).ack_flags = ACCEPTANCE) =>
        (Len(last.attempts) = 1 <=> last.op = "accept")

C1_Witness ==
    /\ LastUnrequested
    /\ last.op = "start"
    /\ Get(Get(last.packet).sec).ack_flags = ACCEPTANCE
    /\ ~last.success
    /\ last.sink_before = 1

\* C2: with the stage's ack flag set, the k-th stage operation hands exactly
\* one TM report to the sink: service type 1, the service identifier's APID,
\* subtype 2k-1 on success and 2k on failure; an accepted write leaves it as
\* the one new element of the sink.
C2_OneReport ==
    LastRequested =>
        /\ Len(last.attempts) = 1
        /\ LET r == last.attempts[1].report
               k == StageNumber(last.op)
           IN  /\ r.packet_type = TM
               /\ Get(r.sec).service_type = 1
               /\ r.apid = IdentApid
               /\ Get(r.sec).service_subtype = IF last.success THEN 2 * k - 1 ELSE 2 * k
               /\ last.attempts[1].ok =>
                    /\ Len(sink) = last.sink_before + 1
                    /\ sink[Len(sink)] = r
               /\ ~last.attempts[1].ok => Len(sink) = last.sink_before

C2_Witness ==
    /\ LastRequested
    /\ last.op = "progress"
    /\ ~last.success
    /\ Len(sink) = 2

\* the failure code a failure report is to carry: the caller's, or the
\* default when the caller gives none
CodeToReport(failure_code) ==
    IF IsNone(failure_code) THEN ILLEGAL_APP_DATA ELSE Get(failure_code)

\* C3: the source data of every report handed to the sink is request_id() of
\* the packet passed to the call on a success report, and request_id(), the
\* failure code big-endian in the width of failure_code_type, then
\* failure_data (nothing when none is given) on a failure report.
C3_PayloadIsRequestIdCodeData ==
    LastRequested =>
        \A n \in DOMAIN last.attempts :
            LET p == Get(last.packet)
                rid == <<p.packet_type * 16 + p.secondary_header_flag * 8 + (p.apid \div 256),
                         p.apid % 256,
                         p.seq_flags * 64 + (p.seq_count_or_name \div 256),
                         p.seq_count_or_name % 256>>
                code == CodeToReport(last.failure_code)
                codeBytes == IF failure_code_type = 1 THEN <<code % 256>>
                             ELSE <<code \div 256, code % 256>>
                data == IF IsNone(last.failure_data) THEN <<>> ELSE Get(last.failure_data)
            IN  last.attempts[n].report.data =
                    IF last.success THEN rid ELSE rid \o codeBytes \o data

\* C4: a stage operation called with success = false and no failure_code, the
\* stage's ack flag set, does not fail (short of the sink refusing the write):
\* it hands over a failure report whose failure code is ILLEGAL_APP_DATA.
C4_DefaultFailureCode ==
    (LastRequested /\ ~last.success /\ IsNone(last.failure_code)) =>
        /\ Len(last.attempts) = 1
        /\ last.attempts[1].ok => last.outcome = "returned"
        /\ LET r == last.attempts[1].report
           IN  /\ Get(r.sec).service_subtype = 2 * StageNumber(last.op)
               /\ Len(r.data) >= 4 + failure_code_type
               /\ FromBytesBE(SubSeq(r.data, 5, 4 + failure_code_type)) = ILLEGAL_APP_DATA

C4_Witness ==
    /\ LastRequested
    /\ ~last.success
    /\ IsNone(last.failure_code)
    /\ last.outcome = "returned"
    /\ failure_code_type = 2
    /\ Len(sink) = last.sink_before + 1

\* the claim of C6, for a call that went through the TM factory with a pair
LastMadeTm ==
    /\ ~IsNone(last.key)
    /\ last.op \in StageOps \cup {"PusTmPacket"}

\* C6: the message type counter the TM factory gives the reports of a pair
\* starts at 0, goes up by one per report made of that pair and wraps at the
\* counter's modulus: the n-th report of a pair gets (n - 1) mod 256; a
\* factory call naming no service type or no subtype gets no value and
\* changes no counter.
C6_CounterCountsTmReports ==
    /\ LastMadeTm =>
        last.count = Some((tm_created[Get(last.key)] - 1) % CounterModulus)
    /\ (last.op = "PusTmPacket" /\ IsNone(last.key)) =>
        /\ IsNone(last.count)
        /\ counter = last.counter_before

(***************************************************************************)
(* SpecConc: two threads, each making one call of a stage operation on the *)
(* same service for its own command.  A step is one access to state the    *)
(* threads share: the identifier's seq_count(), subcounter's read of the   *)
(* dict, its write, the output stream's write.                             *)
(***************************************************************************)
\* the command each thread reports on
ThreadPackets(t) ==
    {p \in TcPackets : p.seq_count_or_name = 79 + t}

Others(t) == Threads \ {t}

InCall(t) == pc[t] \notin {"idle", "done"}

InitConc ==
    /\ seq_count \in {0, SeqCountModulus - 1}
    /\ counter = [k \in Keys |-> 0]
    /\ tm_created = [k \in Keys |-> 0]
    /\ failure_code_type \in {1, 2}
    /\ sink = <<>>
    /\ last = NoCall
    /\ calls = 0
    /\ IdleConc
    /\ IdleCodec
    /\ IdlePolicy
    /\ IdleCrc
    /\ IdleTime

\* a thread calls op: the ack check, and for a requested stage the payload
\* and the time of lines 123-128
Enter(t) ==
    /\ pc[t] = "idle"
    /\ \E op \in StageOps, i \in StageInputs, now \in Clock :
        /\ i.packet \in ThreadPackets(t)
        /\ frame' = [frame EXCEPT ![t] =
                [op |-> op, packet |-> i.packet, success |-> i.success,
                 subservice |-> SubService(op, i.success),
                 payload |-> ReportPayload(i.packet, i.success, i.failure_code,
                                           i.failure_data, failure_code_type),
                 time |-> PolicyCucTime(now),
                 seq |-> None, count |-> None, report |-> None]]
        /\ pc' = [pc EXCEPT ![t] = IF Ack(i.packet, StageFlag(op)) THEN "seq" ELSE "done"]
    /\ overlapped' = (overlapped \/ \E u \in Others(t) : InCall(u))
    /\ UNCHANGED <<serviceVars, codecVars, pureVars>>

\* line 131: seq_count=self._ident.seq_count(), evaluated before the factory
\* is entered
TakeSeq(t) ==
    /\ pc[t] = "seq"
    /\ seq_count' = NextSeqCount(seq_count).next
    /\ frame' = [frame EXCEPT ![t].seq = Some(NextSeqCount(seq_count).value)]
    /\ pc' = [pc EXCEPT ![t] = "get"]
    /\ UNCHANGED <<counter, failure_code_type, sink, last, tm_created, calls,
                   overlapped, codecVars, pureVars>>

\* subcounter, line 45: count = counter.get(key, 0)
CounterGet(t) ==
    /\ pc[t] = "get"
    /\ frame' = [frame EXCEPT ![t].count =
                    Some(counter[<<REQUEST_VERIFICATION, frame[t].subservice>>])]
    /\ pc' = [pc EXCEPT ![t] = "set"]
    /\ UNCHANGED <<serviceVars, overlapped, codecVars, pureVars>>

\* subcounter, line 46: counter[key] = (count + 1) % 256, and the packet made
CounterSet(t) ==
    /\ pc[t] = "set"
    /\ counter' = [counter EXCEPT ![<<REQUEST_VERIFICATION, frame[t].subservice>>] =
                    (Get(frame[t].count) + 1) % CounterModulus]
    /\ frame' = [frame EXCEPT ![t].report =
                    Some(ReportPacket(IdentApid, Get(frame[t].seq), frame[t].subservice,
                                      frame[t].time, frame[t].count, frame[t].payload))]
    /\ pc' = [pc EXCEPT ![t] = "write"]
    /\ UNCHANGED <<seq_count, failure_code_type, sink, last, tm_created, calls,
                   overlapped, codecVars, pureVars>>

\* line 137: the write to the output stream, which may fail
Write(t) ==
    /\ pc[t] = "write"
    /\ \E ok \in BOOLEAN :
        sink' = IF ok THEN Append(sink, Get(frame[t].report)) ELSE sink
    /\ pc' = [pc EXCEPT ![t] = "done"]
    /\ UNCHANGED <<seq_count, counter, failure_code_type, last, tm_created, calls,
                   frame, overlapped, codecVars, pureVars>>

NextConc ==
    \E t \in Threads :
        \/ Enter(t)
        \/ TakeSeq(t)
        \/ CounterGet(t)
        \/ CounterSet(t)
        \/ Write(t)

SpecConc == InitConc /\ [][NextConc]_vars

\* C5: two calls of stage operations running at once on the same service,
\* for different commands, never hold or emit the same sequence count.
C5_DistinctSequenceCounts ==
    /\ \A t \in Threads : \A u \in Others(t) :
        (pc[t] \in {"get", "set", "write", "done"} /\ ~IsNone(frame[t].seq)
            /\ pc[u] \in {"get", "set", "write", "done"} /\ ~IsNone(frame[u].seq))
        => frame[t].seq # frame[u].seq
    /\ \A i \in DOMAIN sink : \A j \in DOMAIN sink :
        i # j => sink[i].seq_count_or_name # sink[j].seq_count_or_name

\* both reports emitted by calls that overlapped, the later count written
\* first, across the 14-bit wrap
C5_Witness ==
    /\ overlapped
    /\ Len(sink) = 2
    /\ sink[1].seq_count_or_name = 0
    /\ sink[2].seq_count_or_name = SeqCountModulus - 1
    /\ sink[1].data # sink[2].data

(***************************************************************************)
(* SpecCodec: a packet is built, serialized, and the bytes deserialized    *)
(* with the presence flags its construction fixes.                         *)
(***************************************************************************)
\* the data fields of the packets built
RECURSIVE DataOfLen(_)
DataOfLen(n) ==
    IF n = 0 THEN {<<>>}
    ELSE {Append(d, b) : d \in DataOfLen(n - 1), b \in {0, 222}}

DataFields == UNION {DataOfLen(n) : n \in 0..MaxData}

\* optional one-octet fields: absent, zero, or the value of the tests
OptFields == {None, Some(0), Some(2)}

\* the times of the TM packets built: the time of tests/test_packet.py, a
\* time in the policy's format, and one whose seconds exceed the one octet
\* of its format
CodecTimes ==
    {Get(CucTime(100, 10000, 4, 2, TRUE, None, None)),
     Get(CucTime(100, 7, PolicyBasicUnitLength, PolicyFracUnitLength, FALSE,
                 Some(PolicyEpoch), None)),
     Get(CucTime(300, 1, 1, 1, TRUE, None, None))}

InitCodec ==
    /\ seq_count = 0
    /\ counter = [k \in Keys |-> 0]
    /\ tm_created = [k \in Keys |-> 0]
    /\ failure_code_type = 1
    /\ sink = <<>>
    /\ last = NoCall
    /\ calls = 0
    /\ IdleConc
    /\ IdleCodec
    /\ IdlePolicy
    /\ IdleCrc
    /\ IdleTime

\* CcsdsSpacePacket.create
CreateCcsds ==
    /\ IsNone(pkt)
    /\ \E packet_type \in {TM, TC}, flag \in {0, 1}, apid \in {16, 2047},
          seq \in {80, 16383}, data \in DataFields, has_pec \in BOOLEAN :
        pkt' = Some(CcsdsCreate(packet_type, apid, seq, data, has_pec, flag))
    /\ UNCHANGED <<serviceVars, concVars, pureVars, acked, wire, decoded>>

\* PusTcPacket.create
CreateTc ==
    /\ IsNone(pkt)
    /\ \E apid \in {16, 2047}, name \in {80, 16383}, ack_flags \in 0..15,
          service \in {<<8, 1>>, <<255, 254>>}, source \in OptFields,
          data \in DataFields, pus_version \in {1, 2}, has_pec \in BOOLEAN :
        pkt' = Some(PusTcCreate(apid, name, ack_flags, service[1], service[2],
                                source, data, pus_version, has_pec))
    /\ UNCHANGED <<serviceVars, concVars, pureVars, acked, wire, decoded>>

\* PusTmPacket.create
CreateTm ==
    /\ IsNone(pkt)
    /\ \E apid \in {16, 2047}, seq \in {80, 16383}, service \in {<<130, 4>>, <<1, 8>>},
          time \in CodecTimes, msg_type_counter \in OptFields, destination \in {None, Some(2)},
          data \in DataFields, pus_version \in {1, 2}, status \in {0, 1},
          has_pec \in BOOLEAN :
        pkt' = Some(PusTmCreate(apid, seq, service[1], service[2], time,
                                msg_type_counter, destination, data, pus_version,
                                status, has_pec))
    /\ UNCHANGED <<serviceVars, concVars, pureVars, acked, wire, decoded>>

\* packet.serialize(): the bytes, or the failure; a run either serializes
\* the packet built or queries its ack flags
DoSerialize ==
    /\ ~IsNone(pkt)
    /\ IsNone(wire)
    /\ IsNone(acked)
    /\ LET b == Serialize(Get(pkt))
       IN  wire' = Some([raised |-> IsNone(b), bytes |-> IF IsNone(b) THEN <<>> ELSE Get(b)])
    /\ UNCHANGED <<serviceVars, concVars, pureVars, acked, pkt, decoded>>

\* the CucTime instance handed to PusTmPacket.deserialize: one of the
\* format of the packet's time
TimeTemplate(time) == [time EXCEPT !.seconds = 0, !.fraction = Some(0)]

\* deserialize() of the class the packet was built with, given the presence
\* flags of the packet built
DeserializeMatching(p, buffer) ==
    IF IsNone(p.sec) THEN CcsdsDeserialize(buffer, p.has_pec)
    ELSE IF p.packet_type = TC
    THEN PusTcDeserialize(buffer, ~IsNone(Get(p.sec).source), p.has_pec)
    ELSE PusTmDeserialize(buffer, ~IsNone(Get(p.sec).msg_type_counter),
                          ~IsNone(Get(p.sec).destination),
                          TimeTemplate(Get(p.sec).time), p.has_pec)

DoDeserialize ==
    /\ ~IsNone(wire)
    /\ ~Get(wire).raised
    /\ IsNone(decoded)
    /\ LET r == DeserializeMatching(Get(pkt), Get(wire).bytes)
       IN  decoded' = Some([raised |-> IsNone(r), packet |-> r])
    /\ UNCHANGED <<serviceVars, concVars, pureVars, acked, pkt, wire>>

\* AckFlag's four named bits
AckFlags == {ACCEPTANCE, START_OF_EXECUTION, PROGRESS, COMPLETION}

\* packet.ack(flag) on the TC packet built: a query, the packet stays as it is
QueryAck ==
    /\ ~IsNone(pkt)
    /\ ~IsNone(Get(pkt).sec)
    /\ Get(pkt).packet_type = TC
    /\ IsNone(wire)
    /\ IsNone(acked)
    /\ \E flag \in AckFlags :
        acked' = Some([flag |-> flag, answer |-> Ack(Get(pkt), flag), packet |-> Get(pkt)])
    /\ UNCHANGED <<serviceVars, concVars, pureVars, pkt, wire, decoded>>

NextCodec ==
    \/ CreateCcsds
    \/ CreateTc
    \/ CreateTm
    \/ DoSerialize
    \/ DoDeserialize
    \/ QueryAck

SpecCodec == InitCodec /\ [][NextCodec]_vars

(***************************************************************************)
(* Claims about the packet codec, under SpecCodec.                         *)
(***************************************************************************)
Serialized == ~IsNone(wire) /\ ~Get(wire).raised
Deserialized == ~IsNone(decoded)
IsPus(p) == ~IsNone(p.sec)

C8_LenIsHeaderPayloadPec ==
    ~IsNone(pkt) =>
        LET p == Get(pkt)
        IN  /\ ~IsNone(Payload(p)) =>
                PacketLen(p) = HeaderSize + Len(Get(Payload(p)))
                                  + (IF p.has_pec THEN PecSize ELSE 0)
            /\ Serialized => PacketLen(p) = Len(Get(wire).bytes)

\* a TM packet with a time field, a data field and the PEC has been serialized
C8_Witness ==
    /\ Serialized
    /\ Get(pkt).packet_type = TM
    /\ IsPus(Get(pkt))
    /\ Get(pkt).has_pec
    /\ Len(Get(pkt).data) > 0
    /\ Len(Get(wire).bytes) > HeaderSize + PecSize

\* the packet data length field of the serialized bytes
WireDataLength == FromBytesBE(Slice(Get(wire).bytes, 5, 6))

\* C9 as the specification states it: the packet data length field is the
\* serialized payload length minus one, with or without the PEC.
C9_LengthFieldIsPayloadLessOne ==
    Serialized => WireDataLength = Len(Get(Payload(Get(pkt)))) - 1

\* C9: the packet data length field is the number of octets after the primary
\* header minus one: the payload's, and the two of the PEC when it is there.
C9_LengthFieldCountsPec ==
    Serialized =>
        /\ WireDataLength = Len(Get(Payload(Get(pkt))))
                              + (IF Get(pkt).has_pec THEN PecSize ELSE 0) - 1
        /\ WireDataLength = Len(Get(wire).bytes) - HeaderSize - 1

\* a TM packet with the PEC and one without have been serialized
C9_Witness ==
    /\ Serialized
    /\ IsPus(Get(pkt))
    /\ Get(pkt).packet_type = TM
    /\ Get(pkt).has_pec
    /\ WireDataLength = Len(Get(Payload(Get(pkt)))) + 1

\* the TC packet of the specification's example: APID 0x10, name 0x50,
\* acceptance acknowledged, service (8, 1), source 2, no data, PEC
ExamplePacket == PusTcCreate(16, 80, ACCEPTANCE, 8, 1, Some(2), <<>>, 1, TRUE)

ExampleBytes == <<24, 16, 192, 80, 0, 5, 17, 8, 1, 2, 121, 74>>

\* C10: with has_pec the last two bytes of the serialized packet are the
\* big-endian crc_ccitt.calculate of all the bytes before them; the example
\* packet serializes to 18 10 C0 50 00 05 11 08 01 02 79 4A.
C10_PecIsCrcOfPrecedingBytes ==
    (Serialized /\ Get(pkt).has_pec) =>
        LET b == Get(wire).bytes
            n == Len(b)
        IN  /\ n >= HeaderSize + PecSize
            /\ b[n - 1] * 256 + b[n] = calculate(SubSeq(b, 1, n - 2))
            /\ Get(pkt) = ExamplePacket => b = ExampleBytes

\* the example packet has been serialized
C10_Witness ==
    /\ Serialized
    /\ Get(pkt) = ExamplePacket
    /\ Get(wire).bytes = ExampleBytes

(***************************************************************************)
(* SpecCrc: calculate applied to a buffer.                                 *)
(***************************************************************************)
\* the service at rest, for the specifications that do not drive it
IdleService ==
    /\ seq_count = 0
    /\ counter = [k \in Keys |-> 0]
    /\ tm_created = [k \in Keys |-> 0]
    /\ failure_code_type = 1
    /\ sink = <<>>
    /\ last = NoCall
    /\ calls = 0

\* the octets of the longer buffers
CrcBytes == {0, 1, 128, 255}

RECURSIVE CrcBuffersOfLen(_)
CrcBuffersOfLen(n) ==
    IF n = 0 THEN {<<>>}
    ELSE {Append(d, b) : d \in CrcBuffersOfLen(n - 1), b \in CrcBytes}

\* the check string "123456789"
CheckString == <<49, 50, 51, 52, 53, 54, 55, 56, 57>>

\* the buffers: every single octet, the buffers over CrcBytes up to
\* MaxCrcLen octets, and the check string
CrcBuffers ==
    {<<b>> : b \in 0..255}
        \cup UNION {CrcBuffersOfLen(n) : n \in 0..MaxCrcLen}
        \cup {CheckString}

InitCrc ==
    /\ IdleService
    /\ IdleConc
    /\ IdleCodec
    /\ IdlePolicy
    /\ IdleTime
    /\ crc_in \in CrcBuffers
    /\ crc_out = None

\* crc_ccitt.calculate(buffer)
Calculate ==
    /\ IsNone(crc_out)
    /\ crc_out' = Some(calculate(crc_in))
    /\ UNCHANGED <<serviceVars, concVars, codecVars, timeVars, policyVars, crc_in>>

NextCrc == Calculate

SpecCrc == InitCrc /\ [][NextCrc]_vars

RECURSIVE RefBits(_, _)
\* n steps of the bit-serial CRC register: shift left, and divide by the
\* polynomial x^16 + x^12 + x^5 + 1 when a one leaves the register
RefBits(crc, n) ==
    IF n = 0 THEN crc
    ELSE LET shifted == (RefBits(crc, n - 1) * 2) % 65536
         IN  IF RefBits(crc, n - 1) >= 32768 THEN Xor(shifted, 4129) ELSE shifted

RECURSIVE RefCrc(_, _)
\* the bit-by-bit CRC of a buffer, most significant bit of each octet first
RefCrc(crc, b) ==
    IF Len(b) = 0 THEN crc
    ELSE RefBits(Xor(RefCrc(crc, SubSeq(b, 1, Len(b) - 1)), b[Len(b)] * 256), 8)

\* C11: calculate(buffer) is a 16-bit value equal to the bit-by-bit CRC-16
\* with polynomial 0x1021, initial value 0xFFFF, most significant bit first
\* and no final XOR; the empty buffer gives 0xFFFF, the check string
\* "123456789" gives 0x29B1, and the value is a function of the buffer alone.
C11_TableMatchesBitwise ==
    ~IsNone(crc_out) =>
        /\ Get(crc_out) \in 0..65535
        /\ Get(crc_out) = RefCrc(65535, crc_in)
        /\ crc_in = <<>> => Get(crc_out) = 65535
        /\ crc_in = CheckString => Get(crc_out) = 10673
        /\ Get(crc_out) = calculate(crc_in)

\* calculate has been applied to a buffer of several octets whose CRC is
\* neither the preset nor zero
C11_Witness ==
    /\ ~IsNone(crc_out)
    /\ Len(crc_in) = 3
    /\ crc_in[1] = 255
    /\ Get(crc_out) \notin {0, 65535}

(***************************************************************************)
(* Claims about the TC packet, under SpecCodec.                            *)
(***************************************************************************)
\* the bit of weight flag (a power of two) is set in mask
BitSet(mask, flag) == (mask \div flag) % 2 = 1

\* C12: for each of the 16 ack-flag masks a TC packet is created with and
\* each of the four flags, packet.ack(flag) is true exactly when the flag's
\* bit is set in the mask, and the packet is the same after the query.
C12_AckIsBitOfMask ==
    ~IsNone(acked) =>
        /\ Get(acked).answer = BitSet(Get(Get(acked).packet.sec).ack_flags, Get(acked).flag)
        /\ Get(pkt) = Get(acked).packet

\* a packet asking for start and completion reports has answered true for
\* one of them, and one asking for all but progress has answered false for
\* progress
C12_Witness ==
    /\ ~IsNone(acked)
    /\ \/ /\ Get(Get(pkt).sec).ack_flags = START_OF_EXECUTION + COMPLETION
          /\ Get(acked).flag = COMPLETION
          /\ Get(acked).answer
       \/ /\ Get(Get(pkt).sec).ack_flags = ACCEPTANCE + START_OF_EXECUTION + COMPLETION
          /\ Get(acked).flag = PROGRESS
          /\ ~Get(acked).answer

\* the TC packet of the specification's first example: APID 0x10, name 0x50,
\* acceptance acknowledged, service (8, 1), no source, no data, no PEC
ExampleTc == PusTcCreate(16, 80, ACCEPTANCE, 8, 1, None, <<>>, 1, FALSE)

ExampleTcBytes == <<24, 16, 192, 80, 0, 2, 17, 8, 1>>

\* C13: the serialized TC packet holds, most significant bit first, the
\* version in 3 bits, the type bit 1, the secondary header flag, the APID in
\* 11 bits, the sequence flags 0b11, the sequence name in 14 bits, the data
\* length in 16 bits, then the PUS version and the ack flags in 4 bits each,
\* the service type and the subtype; the example packet serializes to
\* 18 10 C0 50 00 02 11 08 01.
C13_TcFieldsAtWirePositions ==
    (Serialized /\ IsPus(Get(pkt)) /\ Get(pkt).packet_type = TC) =>
        LET b == Get(wire).bytes
            p == Get(pkt)
            h == Get(p.sec)
        IN  /\ Len(b) >= 9
            /\ b[1] \div 32 = p.packet_version_number
            /\ (b[1] \div 16) % 2 = 1
            /\ (b[1] \div 8) % 2 = p.secondary_header_flag
            /\ (b[1] % 8) * 256 + b[2] = p.apid
            /\ b[3] \div 64 = 3
            /\ (b[3] % 64) * 256 + b[4] = p.seq_count_or_name
            /\ b[5] * 256 + b[6] = Len(b) - HeaderSize - 1
            /\ b[7] \div 16 = h.pus_version
            /\ b[7] % 16 = h.ack_flags
            /\ b[8] = h.service_type
            /\ b[9] = h.service_subtype
            /\ p = ExampleTc => b = ExampleTcBytes

\* the example packet, and one with the largest APID and sequence name and
\* every ack flag, have been serialized
C13_Witness ==
    /\ Serialized
    /\ \/ /\ Get(pkt) = ExampleTc
          /\ Get(wire).bytes = ExampleTcBytes
       \/ /\ IsPus(Get(pkt))
          /\ Get(pkt).packet_type = TC
          /\ Get(pkt).apid = 2047
          /\ Get(pkt).seq_count_or_name = 16383
          /\ Get(Get(pkt).sec).ack_flags = 15


(***************************************************************************)
(* SpecCuc: a CucTime instance is serialized with bytes() and the bytes,   *)
(* whole or cut short, are handed to CucTime.deserialize.                  *)
(***************************************************************************)
\* _TimeFormat.deserialize reading the widths from the first octet only
_TimeFormat_deserialize_octet1(buffer) ==
    IF Len(buffer) < 2 THEN None
    ELSE LET octet1 == buffer[1]
             p_field_extension == octet1 \div 128
             epoch == (octet1 \div 16) % 8
             preamble == IF p_field_extension # 0 THEN <<buffer[1], buffer[2]>>
                         ELSE <<buffer[1]>>
         IN  _TimeFormat(((octet1 \div 4) % 4) + 1, octet1 % 4,
                         IF epoch # 0 THEN Some(epoch) ELSE None, Some(preamble))

\* _TimeFormat.deserialize: the format parsed from the P-field at the start
\* of the buffer, None when ValueError is raised.  The time code id bits are
\* handed on as the epoch argument, absent when they are zero ("if epoch").
_TimeFormat_deserialize(buffer) ==
    IF Len(buffer) < 2 THEN None
    ELSE LET octet1 == buffer[1]
             p_field_extension == octet1 \div 128
             octet2 == buffer[2]
             basic_unit_length ==
                ((octet1 \div 4) % 4) + 1
                    + (IF p_field_extension # 0 THEN (octet2 \div 32) % 4 ELSE 0)
             frac_unit_length ==
                (octet1 % 4) + (IF p_field_extension # 0 THEN (octet2 \div 4) % 8 ELSE 0)
             epoch == (octet1 \div 16) % 8
             preamble == IF p_field_extension # 0 THEN <<buffer[1], buffer[2]>>
                         ELSE <<buffer[1]>>
         IN  _TimeFormat(basic_unit_length, frac_unit_length,
                         IF epoch # 0 THEN Some(epoch) ELSE None, Some(preamble))

\* CucTime.deserialize without the check of the buffer's length against
\* the widths
CucDeserializeUnchecked(buffer, has_preamble, epoch, basic_unit_length, frac_unit_length) ==
    IF Len(buffer) < 2 THEN None
    ELSE IF ~has_preamble /\ ~(TruthyInt(basic_unit_length) /\ TruthyInt(frac_unit_length))
    THEN None
    ELSE LET time_format == IF has_preamble THEN _TimeFormat_deserialize(buffer) ELSE None
         IN  IF has_preamble /\ IsNone(time_format) THEN None
             ELSE LET basic == IF has_preamble
                               THEN Get(time_format).basic_unit_length
                               ELSE Get(basic_unit_length)
                      frac == IF has_preamble
                              THEN Get(time_format).frac_unit_length
                              ELSE Get(frac_unit_length)
                      preamble == IF has_preamble THEN Some(Get(time_format).preamble)
                                  ELSE None
                      preamble_size == IF has_preamble THEN Len(Get(time_format).preamble)
                                       ELSE 0
                      fraction_offset == preamble_size + basic
                  IN  CucTime(FromBytesBE(Slice(buffer, preamble_size, fraction_offset)),
                              FromBytesBE(Slice(buffer, fraction_offset,
                                                fraction_offset + frac)),
                              basic, frac, has_preamble, epoch, preamble)

\* CucTime.deserialize: the instance read from the buffer, None when
\* ValueError (or InvalidTimeFormat) is raised.  The widths the caller gives
\* are optional; "basic_unit_length and frac_unit_length" is Python's
\* truthiness, so an absent width and a width of zero both count as missing.
CucDeserialize(buffer, has_preamble, epoch, basic_unit_length, frac_unit_length) ==
    IF Len(buffer) < 2 THEN None
    ELSE IF ~has_preamble /\ ~(TruthyInt(basic_unit_length) /\ TruthyInt(frac_unit_length))
    THEN None
    ELSE LET time_format == IF has_preamble THEN _TimeFormat_deserialize(buffer) ELSE None
         IN  IF has_preamble /\ IsNone(time_format) THEN None
             ELSE LET basic == IF has_preamble
                               THEN Get(time_format).basic_unit_length
                               ELSE Get(basic_unit_length)
                      frac == IF has_preamble
                              THEN Get(time_format).frac_unit_length
                              ELSE Get(frac_unit_length)
                      preamble == IF has_preamble THEN Some(Get(time_format).preamble)
                                  ELSE None
                      preamble_size == IF has_preamble THEN Len(Get(time_format).preamble)
                                       ELSE 0
                      fraction_offset == preamble_size + basic
                  IN  IF Len(buffer) < preamble_size + basic + frac THEN None
                      ELSE CucTime(FromBytesBE(Slice(buffer, preamble_size, fraction_offset)),
                                   FromBytesBE(Slice(buffer, fraction_offset,
                                                     fraction_offset + frac)),
                                   basic, frac, has_preamble, epoch, preamble)

RECURSIVE Pow256(_)
\* 2 ** (n * 8)
Pow256(n) == IF n = 0 THEN 1 ELSE 256 * Pow256(n - 1)

\* the (seconds, fraction) pairs of the instances of a format: the pair
\* (100, 10000) where the fraction field holds it, and the largest values of
\* up to three octets
CucSamples(b, f) ==
    {<<100, IF f = 0 THEN 0 ELSE IF f = 1 THEN 200 ELSE 10000>>,
     <<Pow256(Min(b, 3)) - 1, Pow256(Min(f, 3)) - 1>>}

\* the instances serialized: every format, with and without preamble, with
\* the TAI epoch and with an agency-defined one
CucInstances ==
    UNION {{Get(CucTime(v[1], v[2], b, f, hp, epoch, None)) :
                v \in CucSamples(b, f), hp \in BOOLEAN,
                epoch \in {None, Some(PolicyEpoch)}} :
           b \in 1..7, f \in 0..10}

InitCuc ==
    /\ IdleService
    /\ IdleConc
    /\ IdleCodec
    /\ IdlePolicy
    /\ IdleCrc
    /\ cuc \in {Some(t) : t \in CucInstances}
    /\ cuc_bytes = None
    /\ cuc_dec = None
    /\ cuc_op = NoTimeOp
    /\ cuc_ops = 0

\* bytes(t): the octets, or the failure
TimeBytes ==
    /\ IsNone(cuc_bytes)
    /\ LET b == CucBytes(Get(cuc))
       IN  cuc_bytes' = Some([raised |-> IsNone(b),
                              bytes |-> IF IsNone(b) THEN <<>> ELSE Get(b)])
    /\ UNCHANGED <<serviceVars, concVars, codecVars, crcVars, policyVars, cuc, cuc_dec, cuc_op, cuc_ops>>

\* the lengths the buffer is cut to: around each field boundary, and whole
BufferLens(t) ==
    LET ps == IF t.has_preamble THEN Len(t.format.preamble) ELSE 0
        b == t.format.basic_unit_length
    IN  {n \in 0..CucLen(t) : n \in {0, 1, 2, ps, ps + b - 1, ps + b, CucLen(t) - 1, CucLen(t)}}

\* the widths a caller passes: none, the width of the instance and, where
\* a preamble states the widths, another one
CallerWidths(t, w, least) ==
    {None, Some(w)}
        \cup (IF t.has_preamble THEN {Some(IF w = least THEN w + 1 ELSE w - 1)} ELSE {})

\* CucTime.deserialize(buffer, has_preamble, epoch, basic_unit_length,
\* frac_unit_length) on the bytes of the instance or a prefix of them, told
\* whether they start with a preamble
TimeDeserialize ==
    /\ ~IsNone(cuc_bytes)
    /\ ~Get(cuc_bytes).raised
    /\ IsNone(cuc_dec)
    /\ LET t == Get(cuc)
       IN  \E n \in BufferLens(t), epoch \in {None, t.format.epoch},
              basic \in CallerWidths(t, t.format.basic_unit_length, 1),
              frac \in CallerWidths(t, t.format.frac_unit_length, 0) :
            LET buffer == SubSeq(Get(cuc_bytes).bytes, 1, n)
                r == CucDeserialize(buffer, t.has_preamble, epoch, basic, frac)
            IN  cuc_dec' = Some([buffer |-> buffer,
                                 has_preamble |-> t.has_preamble,
                                 epoch |-> epoch,
                                 basic_unit_length |-> basic,
                                 frac_unit_length |-> frac,
                                 raised |-> IsNone(r),
                                 time |-> r])
    /\ UNCHANGED <<serviceVars, concVars, codecVars, crcVars, policyVars, cuc, cuc_bytes, cuc_op, cuc_ops>>

NextCuc ==
    \/ TimeBytes
    \/ TimeDeserialize

SpecCuc == InitCuc /\ [][NextCuc]_vars

(***************************************************************************)
(* Claims about the CUC time code, under SpecCuc.                          *)
(***************************************************************************)
\* C14: for every format with a basic width of 1..7 and a fraction width of
\* 0..10 octets and a preamble, CucTime.deserialize(bytes(t)) succeeds and
\* gives an instance with the widths, the seconds and the fraction of t, and
\* len(t) is the number of octets of bytes(t).
C14_CucRoundTrip ==
    /\ ~IsNone(cuc_bytes) =>
        /\ ~Get(cuc_bytes).raised
        /\ Len(Get(cuc_bytes).bytes) = CucLen(Get(cuc))
    /\ (~IsNone(cuc_dec) /\ Get(cuc_dec).has_preamble
            /\ Get(cuc_dec).buffer = Get(cuc_bytes).bytes) =>
        /\ ~Get(cuc_dec).raised
        /\ LET r == Get(Get(cuc_dec).time)
               t == Get(cuc)
           IN  /\ r.format.basic_unit_length = t.format.basic_unit_length
               /\ r.format.frac_unit_length = t.format.frac_unit_length
               /\ r.seconds = t.seconds
               /\ r.fraction = t.fraction
               /\ CucLen(r) = Len(Get(cuc_bytes).bytes)

\* the instance of 4 + 2 octets holding (100, 10000) has been serialized and
\* read back with default arguments
C14_Witness ==
    /\ ~IsNone(cuc_dec)
    /\ Get(cuc).has_preamble
    /\ Get(cuc).format.basic_unit_length = 4
    /\ Get(cuc).format.frac_unit_length = 2
    /\ Get(cuc).seconds = 100
    /\ Get(cuc).fraction = Some(10000)
    /\ Get(cuc_dec).buffer = Get(cuc_bytes).bytes
    /\ IsNone(Get(cuc_dec).basic_unit_length)
    /\ IsNone(Get(cuc_dec).frac_unit_length)
    /\ IsNone(Get(cuc_dec).epoch)
    /\ ~Get(cuc_dec).raised
    /\ Get(Get(cuc_dec).time).seconds = 100

\* C16: CucTime.deserialize told that the buffer has a preamble takes the
\* widths from the P-field at the start of the buffer, whatever widths the
\* caller passes; told that it has none, it fails when the caller leaves a
\* width out; and it fails on a buffer shorter than the preamble, the seconds
\* field and the fraction field together.
C16_DeserializeWidthsAndFailures ==
    ~IsNone(cuc_dec) =>
        LET d == Get(cuc_dec)
            t == Get(cuc)
        IN  /\ (d.has_preamble /\ ~d.raised) =>
                /\ Get(d.time).format.basic_unit_length = t.format.basic_unit_length
                /\ Get(d.time).format.frac_unit_length = t.format.frac_unit_length
                /\ Get(d.time).format.preamble = t.format.preamble
            /\ (~d.has_preamble
                    /\ (IsNone(d.basic_unit_length) \/ IsNone(d.frac_unit_length))) =>
                /\ d.raised
                /\ IsNone(d.time)
            /\ (d.has_preamble
                    /\ Len(d.buffer) < Len(t.format.preamble) + t.format.basic_unit_length
                                        + t.format.frac_unit_length) =>
                /\ d.raised
                /\ IsNone(d.time)
            /\ (~d.has_preamble /\ ~IsNone(d.basic_unit_length)
                    /\ ~IsNone(d.frac_unit_length)
                    /\ Len(d.buffer) < Get(d.basic_unit_length) + Get(d.frac_unit_length)) =>
                /\ d.raised
                /\ IsNone(d.time)

\* a whole buffer with a two-octet preamble has been read with caller widths
\* that differ from those of the preamble
C16_Witness ==
    /\ ~IsNone(cuc_dec)
    /\ Get(cuc_dec).has_preamble
    /\ Len(Get(cuc).format.preamble) = 2
    /\ ~IsNone(Get(cuc_dec).basic_unit_length)
    /\ Get(Get(cuc_dec).basic_unit_length) # Get(cuc).format.basic_unit_length
    /\ ~IsNone(Get(cuc_dec).frac_unit_length)
    /\ Get(Get(cuc_dec).frac_unit_length) # Get(cuc).format.frac_unit_length
    /\ ~Get(cuc_dec).raised
    /\ Get(Get(cuc_dec).time).format.basic_unit_length = Get(cuc).format.basic_unit_length

(***************************************************************************)
(* SpecTime: one CucTime instance is constructed and then changed through  *)
(* its setters, from_datetime and from_bytes, and serialized.  A datetime  *)
(* is the pair <<ds, us>> of whole seconds and microseconds between the    *)
(* instance's epoch and it; ds < 0 stands for a datetime before the epoch. *)
(***************************************************************************)
\* Python's round() of the non-negative quotient num / den: to the nearest
\* integer, a tie to the even one
RoundHalfEven(num, den) ==
    LET q == num \div den
        r == num % den
    IN  IF 2 * r < den THEN q
        ELSE IF 2 * r > den THEN q + 1
        ELSE IF q % 2 = 0 THEN q ELSE q + 1

\* the seconds setter: None when ValueError is raised
CucSetSeconds(t, val) ==
    LET max_val == Pow256(t.format.basic_unit_length) - 1
    IN  IF 0 <= val /\ val <= max_val THEN Some([t EXCEPT !.seconds = val]) ELSE None

\* the fraction setter: None when ValueError is raised
CucSetFraction(t, val) ==
    IF t.format.frac_unit_length = 0 THEN None
    ELSE LET max_val == Pow256(t.format.frac_unit_length) - 1
         IN  IF 0 <= val /\ val <= max_val THEN Some([t EXCEPT !.fraction = Some(val)])
             ELSE None

\* from_datetime: None when ValueError is raised.  math.modf splits the
\* elapsed time into dt[1] seconds and dt[2] microseconds; the seconds are
\* stored as they are, the fraction is scaled by 2 ** (8 * width) - 1.
CucFromDatetime(t, dt) ==
    IF dt[1] < 0 THEN None
    ELSE IF t.format.frac_unit_length # 0
    THEN Some([t EXCEPT
            !.seconds = dt[1],
            !.fraction = Some(RoundHalfEven(
                            dt[2] * (Pow256(t.format.frac_unit_length) - 1), 1000000))])
    ELSE Some([t EXCEPT !.seconds = RoundHalfEven(dt[1] * 1000000 + dt[2], 1000000)])

\* CucTime.create at the time now: None when an exception is raised
CucCreate(seconds, fraction, basic_unit_length, frac_unit_length, has_preamble, epoch, preamble, now) ==
    LET cuc_time == CucTime(seconds, fraction, basic_unit_length, frac_unit_length,
                            has_preamble, epoch, preamble)
    IN  IF IsNone(cuc_time) THEN None
        ELSE IF seconds = 0 /\ fraction = 0 THEN CucFromDatetime(Get(cuc_time), now)
        ELSE cuc_time

\* CucTime.__float__ as the exact quotient num / den
CucFloat(t) ==
    [num |-> t.seconds * Pow256(t.format.frac_unit_length) + Get(t.fraction),
     den |-> Pow256(t.format.frac_unit_length)]

\* the operations on an instance after its construction
MaxTimeOps == 2

\* <<basic_unit_length, frac_unit_length, has_preamble>> of the instances
TimeFormats == {<<1, 0, TRUE>>, <<1, 1, TRUE>>, <<1, 1, FALSE>>, <<2, 1, TRUE>>}

\* values given for seconds and fraction: some fit one octet, some two, some
\* neither
SecondsInputs == {0, 100, 256, 65536}

FractionInputs == {0, 255, 256}

\* datetimes: before the epoch, at it, and up to 256 seconds after it
Datetimes == {-1, 0, 255, 256} \X {0, 500000, 998000}

\* buffers handed to from_bytes: an empty one, and the encodings of the
\* largest values of the instance's format
TimeBuffers(t) ==
    {<<>>,
     (IF t.has_preamble THEN t.format.preamble ELSE <<>>)
        \o ToBytesBE(Pow256(t.format.basic_unit_length) - 1, t.format.basic_unit_length)
        \o ToBytesBE(Pow256(t.format.frac_unit_length) - 1, t.format.frac_unit_length)}

\* the record of the operation that acted last
TimeOp(op, args, r, before) ==
    [op |-> op, args |-> args, raised |-> IsNone(r), before |-> before]

InitTime ==
    /\ IdleService
    /\ IdleConc
    /\ IdleCodec
    /\ IdlePolicy
    /\ IdleCrc
    /\ IdleTime

\* CucTime(seconds, fraction, basic_unit_length, frac_unit_length, has_preamble)
Construct ==
    /\ IsNone(cuc)
    /\ \E fmt \in TimeFormats, seconds \in SecondsInputs, fraction \in FractionInputs :
        LET r == CucTime(seconds, fraction, fmt[1], fmt[2], fmt[3], None, None)
        IN  /\ cuc' = r
            /\ cuc_op' = TimeOp("init", <<seconds, fraction, fmt[1], fmt[2]>>, r, None)
    /\ UNCHANGED <<serviceVars, concVars, codecVars, crcVars, policyVars, cuc_bytes, cuc_dec, cuc_ops>>

\* CucTime.create(seconds, fraction, ...) while the clock reads now
Create ==
    /\ IsNone(cuc)
    /\ \E fmt \in TimeFormats, seconds \in SecondsInputs, fraction \in FractionInputs,
          now \in Datetimes :
        LET r == CucCreate(seconds, fraction, fmt[1], fmt[2], fmt[3], None, None, now)
        IN  /\ cuc' = r
            /\ cuc_op' = TimeOp("create", <<seconds, fraction, fmt[1], fmt[2]>>, r, None)
    /\ UNCHANGED <<serviceVars, concVars, codecVars, crcVars, policyVars, cuc_bytes, cuc_dec, cuc_ops>>

\* an operation on the instance: it keeps its state when the operation raises
Apply(op, args, r) ==
    /\ cuc' = IF IsNone(r) THEN cuc ELSE r
    /\ cuc_op' = TimeOp(op, args, r, cuc)
    /\ cuc_ops' = cuc_ops + 1
    /\ UNCHANGED <<serviceVars, concVars, codecVars, crcVars, policyVars, cuc_bytes, cuc_dec>>

\* t.seconds = val
SetSeconds ==
    /\ ~IsNone(cuc)
    /\ cuc_ops < MaxTimeOps
    /\ \E val \in SecondsInputs : Apply("seconds", <<val>>, CucSetSeconds(Get(cuc), val))

\* t.fraction = val
SetFraction ==
    /\ ~IsNone(cuc)
    /\ cuc_ops < MaxTimeOps
    /\ \E val \in FractionInputs : Apply("fraction", <<val>>, CucSetFraction(Get(cuc), val))

\* t.from_datetime(dt)
FromDatetime ==
    /\ ~IsNone(cuc)
    /\ cuc_ops < MaxTimeOps
    /\ \E dt \in Datetimes : Apply("from_datetime", dt, CucFromDatetime(Get(cuc), dt))

\* t.from_bytes(buffer)
FromBytes ==
    /\ ~IsNone(cuc)
    /\ cuc_ops < MaxTimeOps
    /\ \E buffer \in TimeBuffers(Get(cuc)) :
        Apply("from_bytes", buffer, CucFromBytes(Get(cuc), buffer))

\* bytes(t): the instance stays as it is, the call raises when a value does
\* not fit its field
Bytes ==
    /\ ~IsNone(cuc)
    /\ cuc_ops < MaxTimeOps
    /\ Apply("bytes", <<>>, IF IsNone(CucBytes(Get(cuc))) THEN None ELSE cuc)

NextTime ==
    \/ Construct
    \/ Create
    \/ SetSeconds
    \/ SetFraction
    \/ FromDatetime
    \/ FromBytes
    \/ Bytes

SpecTime == InitTime /\ [][NextTime]_vars

(***************************************************************************)
(* Claims about the CucTime instance, under SpecTime.                      *)
(***************************************************************************)
\* the values of t fit the widths of its format
WithinWidths(t) ==
    /\ t.seconds <= Pow256(t.format.basic_unit_length) - 1
    /\ IsNone(t.fraction) \/ Get(t.fraction) <= Pow256(t.format.frac_unit_length) - 1

\* the last operation was given a value larger than its field holds
GivenTooLarge ==
    \/ /\ cuc_op.op \in {"init", "create"}
       /\ \/ cuc_op.args[1] > Pow256(cuc_op.args[3]) - 1
          \/ cuc_op.args[4] # 0 /\ cuc_op.args[2] > Pow256(cuc_op.args[4]) - 1
    \/ /\ cuc_op.op = "seconds"
       /\ cuc_op.args[1] > Pow256(Get(cuc_op.before).format.basic_unit_length) - 1
    \/ /\ cuc_op.op = "fraction"
       /\ cuc_op.args[1] > Pow256(Get(cuc_op.before).format.frac_unit_length) - 1
    \/ /\ cuc_op.op = "from_datetime"
       /\ cuc_op.args[1] > Pow256(Get(cuc_op.before).format.basic_unit_length) - 1

\* C15: in every state of a CucTime instance, after construction, create,
\* the setters, from_datetime and from_bytes in any order, the seconds and
\* the fraction fit the widths of the format; an operation given a larger
\* value fails itself, before bytes() is called, and leaves the instance as
\* it was.
C15_ValuesWithinWidths ==
    /\ ~IsNone(cuc) => WithinWidths(Get(cuc))
    /\ GivenTooLarge => (cuc_op.raised /\ cuc = cuc_op.before)
    /\ cuc_op.op = "bytes" => ~cuc_op.raised

Abs(x) == IF x < 0 THEN -x ELSE x

\* C17: for an instance with a fraction field and a datetime at or after the
\* epoch whose whole seconds fit the seconds field, float(t) after
\* t.from_datetime(dt) differs from the elapsed seconds by less than one
\* unit of the fraction field, 1 / 2 ** (8 * frac_unit_length).  With the
\* elapsed time ds + us / 10^6 and float(t) = num / den this is
\* |(num - ds * den) * 10^6 - us * den| < 10^6.
C17_FloatWithinOneUnit ==
    (/\ cuc_op.op = "from_datetime"
     /\ ~cuc_op.raised
     /\ Get(cuc).format.frac_unit_length >= 1
     /\ cuc_op.args[1] <= Pow256(Get(cuc).format.basic_unit_length) - 1) =>
        LET fl == CucFloat(Get(cuc))
            ds == cuc_op.args[1]
            us == cuc_op.args[2]
        IN  Abs((fl.num - ds * fl.den) * 1000000 - us * fl.den) < 1000000

(***************************************************************************)
(* Claims about the output stream and the sequence count, under Spec.      *)
(***************************************************************************)
\* the last call was a stage operation whose write the output stream refused
LastWriteFailed ==
    /\ last.op \in StageOps
    /\ \E n \in DOMAIN last.attempts : ~last.attempts[n].ok

\* C18: when the output stream refuses the write of a stage operation, that
\* same call ends with the failure, the service has handed the report to the
\* stream exactly once, and the report is not kept anywhere: the sink is as
\* it was before the call.
C18_WriteFailurePropagates ==
    LastWriteFailed =>
        /\ last.outcome = "raised"
        /\ Len(last.attempts) = 1
        /\ Len(sink) = last.sink_before

\* a write was refused in the call after one whose report was written
C18_Witness ==
    /\ LastWriteFailed
    /\ last.op = "start"
    /\ last.sink_before = 1
    /\ Len(sink) = 1

\* the step is a stage operation
StageStep == calls' # calls /\ last'.op \in StageOps

\* the step is a stage operation that handed a report to the output stream
WritingStep == StageStep /\ last'.attempts # <<>>

\* the sequence counts of successive reports in the sink are consecutive
\* modulo 16384
SinkCountsConsecutive(s) ==
    \A i \in 1..(Len(s) - 1) :
        s[i + 1].seq_count_or_name = (s[i].seq_count_or_name + 1) % 16384

\* C19 as stated: every stage operation either appends its one report,
\* carrying the next sequence count modulo 16384, to the end of the sink
\* before it returns, or adds nothing to the sink and then consumes no
\* sequence count; successive reports in the sink carry consecutive counts.
C19_SilentCallsConsumeNoCount ==
    [][StageStep =>
        /\ sink' # sink =>
            /\ Len(last'.attempts) = 1
            /\ sink' = Append(sink, last'.attempts[1].report)
            /\ last'.attempts[1].report.seq_count_or_name = seq_count
            /\ seq_count' = (seq_count + 1) % 16384
        /\ sink' = sink => seq_count' = seq_count
        /\ SinkCountsConsecutive(sink')]_vars

\* C19: every stage operation that hands a report to the output stream gives
\* it the next sequence count, and the count advances by one modulo 16384
\* (from 16383 back to 0) whether the stream accepts the write or not; an
\* accepted report is the new last element of the sink before the call
\* returns and a refused one leaves the sink as it was; a stage operation
\* that hands over nothing, and any other operation, leaves the sink and the
\* sequence count as they were.
C19_ReportsInOrderCountPerAttempt ==
    [][/\ WritingStep =>
            /\ Len(last'.attempts) = 1
            /\ last'.attempts[1].report.seq_count_or_name = seq_count
            /\ seq_count' = (seq_count + 1) % 16384
            /\ sink' = IF last'.attempts[1].ok
                       THEN Append(sink, last'.attempts[1].report)
                       ELSE sink
       /\ ~WritingStep => (sink' = sink /\ seq_count' = seq_count)]_vars

\* two reports are in the sink in the order of their calls, the second one
\* carrying the count 0 after the first one's 16383
C19_Witness ==
    /\ Len(sink) = 2
    /\ last.op = "start"
    /\ last.outcome = "returned"
    /\ sink[1].seq_count_or_name = 16383
    /\ sink[2].seq_count_or_name = 0
    /\ sink[2] = last.attempts[1].report
    /\ Get(sink[1].sec).service_subtype = SUCCESSFUL_ACCEPTANCE_VERIFICATION

\* the failure code field of a failure report's source data
ReportedCode(r) == FromBytesBE(SubSeq(r.data, 5, 4 + failure_code_type))

\* C20: a failure call, the stage's ack flag set, that is given a failure
\* code hands over a report carrying exactly the value of that code, the
\* code of value 0 included; the report carries ILLEGAL_APP_DATA in place of
\* a code only when the call was given none.
C20_SuppliedCodeCarried ==
    (LastRequested /\ ~last.success /\ Len(last.attempts) = 1) =>
        LET r == last.attempts[1].report
        IN  /\ ~IsNone(last.failure_code) => ReportedCode(r) = Get(last.failure_code)
            /\ IsNone(last.failure_code) => ReportedCode(r) = ILLEGAL_APP_DATA

(***************************************************************************)
(* Claims about the policy's factories, under Spec.                        *)
(***************************************************************************)
\* C21: a call of the policy's PusTcPacket factory leaves the message type
\* counter of every (service type, service subtype) pair as it was, so the
\* value the next TM packet of a pair gets is the number of TM packets of
\* that pair made before, modulo 256, however TC and TM factory calls are
\* interleaved.
C21_TcFactoryLeavesTmCounters ==
    /\ last.op = "PusTcPacket" => counter = last.counter_before
    /\ \A k \in Keys : counter[k] = tm_created[k] % CounterModulus

(***************************************************************************)
(* SpecPolicy: a program makes PusPolicy instances, sets the failure code  *)
(* type through them, registers one with set_policy, and calls accept on   *)
(* the verification service.                                               *)
(***************************************************************************)
\* the instances a program makes besides the default one
Policies == {"p1", "p2"}

\* len() of UInt8Parameter and of UInt16Parameter
Widths == {1, 2}

\* len() of the failure_code_type the class is defined with, UInt8Parameter
DefaultFailureCodeWidth == 1

InitPolicy ==
    /\ IdleService
    /\ IdleConc
    /\ IdleCodec
    /\ IdlePolicy
    /\ IdleCrc
    /\ IdleTime

\* PusPolicy.__init__: self.request_verification = self.RequestVerification,
\* the class itself, not an instance of it
NewPolicy ==
    /\ \E p \in Policies \ DOMAIN request_verification :
        /\ request_verification' =
                [q \in DOMAIN request_verification \cup {p} |->
                    IF q = p THEN RequestVerificationClass ELSE request_verification[q]]
        /\ configured' =
                [q \in DOMAIN configured \cup {p} |->
                    IF q = p THEN None ELSE configured[q]]
    /\ UNCHANGED <<serviceVars, concVars, codecVars, crcVars, timeVars, _pus_policy>>

\* p.request_verification.failure_code_type = <a parameter type of w octets>:
\* the attribute is set on the object p.request_verification refers to
SetFailureCodeType ==
    /\ \E p \in DOMAIN request_verification, w \in Widths :
        /\ request_verification[p] = RequestVerificationClass
        /\ failure_code_type' = w
        /\ configured' = [configured EXCEPT ![p] = Some(w)]
    /\ UNCHANGED <<seq_count, counter, sink, last, tm_created, calls,
                   concVars, codecVars, crcVars, timeVars, request_verification, _pus_policy>>

\* set_policy(p)
set_policy ==
    /\ \E p \in DOMAIN request_verification : _pus_policy' = p
    /\ UNCHANGED <<serviceVars, concVars, codecVars, crcVars, timeVars,
                   request_verification, configured>>

NextPolicy ==
    \/ NewPolicy
    \/ SetFailureCodeType
    \/ set_policy
    \/ accept

SpecPolicy == InitPolicy /\ [][NextPolicy]_vars

\* the width of the failure_code_type configured on policy p: the one set
\* through p last, the class's own when none was
ConfiguredWidth(p) ==
    IF IsNone(configured[p]) THEN DefaultFailureCodeWidth ELSE Get(configured[p])

\* the width of p.request_verification.failure_code_type as read through p
SeenWidth(p) ==
    IF request_verification[p] = RequestVerificationClass THEN failure_code_type
    ELSE DefaultFailureCodeWidth

\* C22: the failure_code_type read through a policy instance is the one set
\* through that instance, whatever is set through other instances before or
\* after; a failure report's code field has the width configured on the
\* policy registered with set_policy.
C22_PolicyWidthsIndependent ==
    [][/\ \A p \in DOMAIN request_verification' : SeenWidth(p)' = ConfiguredWidth(p)'
       /\ (StageStep /\ ~last'.success /\ last'.attempts # <<>>) =>
            Len(last'.attempts[1].report.data)
                = 4 + ConfiguredWidth(_pus_policy)
                    + (IF IsNone(last'.failure_data) THEN 0
                       ELSE Len(Get(last'.failure_data)))]_vars

(***************************************************************************)
(* Claim about CucTime.deserialize without preamble, under SpecCuc.        *)
(***************************************************************************)
\* C23: CucTime.deserialize told that the buffer has no preamble, and given
\* a basic width of 1..7 and a fraction width of 0..10 octets, the width 0
\* included, succeeds on every buffer of at least basic + fraction octets
\* and returns the seconds and the fraction read big-endian from them.
C23_DeserializeWithoutPreamble ==
    (/\ ~IsNone(cuc_dec)
     /\ ~Get(cuc_dec).has_preamble
     /\ ~IsNone(Get(cuc_dec).basic_unit_length)
     /\ ~IsNone(Get(cuc_dec).frac_unit_length)
     /\ Len(Get(cuc_dec).buffer) >= Get(Get(cuc_dec).basic_unit_length)
                                        + Get(Get(cuc_dec).frac_unit_length)) =>
        LET d == Get(cuc_dec)
            b == Get(d.basic_unit_length)
            f == Get(d.frac_unit_length)
        IN  /\ ~d.raised
            /\ Get(d.time).format.basic_unit_length = b
            /\ Get(d.time).format.frac_unit_length = f
            /\ Get(d.time).seconds = FromBytesBE(SubSeq(d.buffer, 1, b))
            /\ f # 0 => Get(d.time).fraction = Some(FromBytesBE(SubSeq(d.buffer, b + 1, b + f)))

=============================================================================
